---- MODULE Spec2Model ----
(***************************************************************************)
(* A model of preloader-relay: the host side of the MediaTek Preloader /   *)
(* BootROM serial protocol (src/src/device.py, src/src/utils.py,           *)
(* src/src/commands.py) and of its orchestration (src/preloader-relay.py). *)
(*                                                                         *)
(* The program is single-threaded.  A Device method is modelled as an      *)
(* operator on the transport (the serial input buffer rx and the history   *)
(* wire of the calls made on self.dev), applied by one action.  The only   *)
(* loops without a bound in the code, the port poll of find_port and the   *)
(* sync loop of handshake, take one action per iteration.                  *)
(*                                                                         *)
(* The device at the other end of the line is the environment: it answers  *)
(* every write with the bytes of its reply, which the \E of an action      *)
(* draws from small sets.  The bytes it sends carry a ghost tag k naming   *)
(* the protocol field they belong to; the program reads only their value b.*)
(***************************************************************************)
EXTENDS Integers, Sequences, FiniteSets, TLC

VARIABLES
    pc,             \* where the caller stands
    caller,         \* "main" (preloader-relay.py) or "api" (a client of class Device)
    skip_handshake, \* args.skip_handshake
    mode_identify,  \* args.mode_identify
    payload,        \* the bytes of the file args.payload
    port,           \* Device.port: "" is None
    dev,            \* Device.dev is an open serial.Serial
    rx,             \* the input buffer of self.dev: bytes received and not yet read
    wire,           \* ghost: the write/read/reset_input_buffer calls on self.dev
                    \* made by the method the caller invoked last, in order
    logged,         \* the lines that method gave to logging.info, in order
    err,            \* the exception it raised (kind "none": none so far)
    ret,            \* the value it returned
    done,           \* ghost: the methods main called that returned normally, and
                    \* "sync" once a sync loop of main has read its 0x5F
    method,         \* the method the caller invoked last ("" before the first)
    clean,          \* ghost: rx was empty when it was invoked
    hw_code, hw_sub_code, hw_ver, sw_ver, me_id, soc_id,  \* locals of identify()
    argv,           \* the arguments of the running power_init / send_da / jump_da
    exch,           \* the command of the last exchange; did it start with rx empty
    chip,           \* environment: the identity of the attached device
    script,         \* environment: what the device chose in the last exchange
    nsync,          \* sync probes sent by the running handshake()
    probe,          \* handshake(): index of the next of the three probes
    noise,          \* environment: exchanges of this method whose echo was garbled
    calls,          \* calls made so far by the api client
    codec,          \* a call of to_bytes / from_bytes on its own: the arguments
                    \* and the results
    disc            \* a call of find_port on its own: the arguments, the clock
                    \* and the result

args    == <<caller, skip_handshake, mode_identify, payload, codec, disc>>
session == <<port, dev>>
line    == <<rx, wire>>
idvars  == <<hw_code, hw_sub_code, hw_ver, sw_ver, me_id, soc_id>>
envvars == <<chip, script, noise>>
vars    == <<pc, args, session, line, logged, err, ret, done, method, clean, idvars,
             argv, exch, envvars, nsync, probe, calls>>

----------------------------------------------------------------------------
(* Bounds of the model.                                                    *)

\* failed sync probes a handshake() may see before the device answers
MaxSync == 2
\* bytes a device may leave out at the end of a reply (a read then times out)
MaxDrop == 1
\* exchanges of one method call in which the device's echo comes back garbled
MaxNoise == 1
\* method calls of the api client
MaxCalls == 2
\* no reply of the device is longer than this: a device that loses so many
\* bytes of a reply has sent nothing of it
MaxReply == 16
\* seconds on the clock of a find_port that was given no timeout; a timeout
\* that was given is shorter
MaxClock == 3

----------------------------------------------------------------------------
(* src/src/commands.py: the opcodes the Device methods send.               *)

GET_HW_SW_VER == 252
GET_HW_CODE   == 253
PWR_INIT      == 196
PWR_DEINIT    == 197
JUMP_DA       == 213
SEND_DA       == 215
GET_ME_ID     == 225
GET_SOC_ID    == 231

\* src/preloader-relay.py: the load address and signature length main passes
DA_ADDRESS == 2097152
DA_SIG_LEN == 256

----------------------------------------------------------------------------
(* Exceptions and return values.                                           *)

NoErr == [kind |-> "none", what |-> "", code |-> 0]
\* RuntimeError('status is 0x%04X' % code), RuntimeError('ME ID length is 0'), ...
RuntimeError(what, code) == [kind |-> "RuntimeError", what |-> what, code |-> code]
\* struct.error: pack of a value out of range, unpack of a buffer of the wrong size
StructError == [kind |-> "struct.error", what |-> "", code |-> 0]

None == [kind |-> "None", val |-> <<>>]
IntVal(v) == [kind |-> "int", val |-> <<v>>]
BytesVal(bs) == [kind |-> "bytes", val |-> bs]
TupleVal(vs) == [kind |-> "tuple", val |-> vs]

Min(a, b) == IF a < b THEN a ELSE b

----------------------------------------------------------------------------
(* src/src/utils.py: the byte codec.                                       *)

\* TLC's integers are 32 bits wide and signed: the largest is 2^31 - 1.  Every
\* value of the model is below 2^32, so one of 4 bytes is always in range for
\* pack; and a 4-byte field of 2^31 or more is unpacked as 2^31 - 1 (the code
\* compares such a value with 0 and passes it to read(), which returns what
\* the buffer holds: both go the same way for every value that large)
MaxInt == 2147483646 + 1

InRange(value, size) ==
    /\ value >= 0
    /\ size = 1 => value < 256
    /\ size = 2 => value < 65536

\* struct.pack(endian + fmt, value), fmt of n bytes: the n bytes of value,
\* most significant first for '>', least significant first for '<'
RECURSIVE LittleEndian(_, _)
LittleEndian(value, n) ==
    IF n = 0 THEN <<>> ELSE <<value % 256>> \o LittleEndian(value \div 256, n - 1)

Reverse(s) == [i \in 1..Len(s) |-> s[Len(s) + 1 - i]]

struct_pack(endian, n, value) ==
    IF endian = ">" THEN Reverse(LittleEndian(value, n)) ELSE LittleEndian(value, n)

\* struct.unpack(endian + fmt, bytes)[0] of exactly n bytes
RECURSIVE BigEndianValue(_)
BigEndianValue(bs) ==
    IF bs = <<>> THEN 0
    ELSE 256 * BigEndianValue(SubSeq(bs, 1, Len(bs) - 1)) + bs[Len(bs)]

\* an unpack that takes every buffer as big-endian
struct_unpack_be(endian, bs) ==
    IF Len(bs) = 4 /\ bs[1] >= 128 THEN MaxInt ELSE BigEndianValue(bs)

struct_unpack(endian, bs) ==
    LET be == IF endian = ">" THEN bs ELSE Reverse(bs)
    IN  IF Len(be) = 4 /\ be[1] >= 128 THEN MaxInt ELSE BigEndianValue(be)

to_bytes(value, size, endian) ==
    IF size \notin {1, 2, 4}
    THEN [err |-> RuntimeError("invalid size", 0), val |-> <<>>]
    ELSE IF ~InRange(value, size)
    THEN [err |-> StructError, val |-> <<>>]
    ELSE [err |-> NoErr, val |-> struct_pack(endian, size, value)]

\* a from_bytes that unpacks a buffer of any width asked for
from_bytes_anywidth(value, size, endian) ==
    IF Len(value) # size
    THEN [err |-> StructError, val |-> 0]
    ELSE [err |-> NoErr, val |-> struct_unpack(endian, value)]

from_bytes(value, size, endian) ==
    IF size \notin {1, 2, 4}
    THEN [err |-> RuntimeError("invalid size", 0), val |-> 0]
    ELSE IF Len(value) # size
    THEN [err |-> StructError, val |-> 0]
    ELSE [err |-> NoErr, val |-> struct_unpack(endian, value)]

----------------------------------------------------------------------------
(* The transport: serial.Serial as Device uses it.  t = [rx, wire].        *)

Tag(bs, k) == [i \in 1..Len(bs) |-> [b |-> bs[i], k |-> k]]
Bytes(ts)  == [i \in 1..Len(ts) |-> ts[i].b]
Kinds(ts)  == [i \in 1..Len(ts) |-> ts[i].k]

Event(op, n, data, reply) == [op |-> op, n |-> n, data |-> data, reply |-> reply]

\* self.dev.write(data); the device answers with reply, which lands in rx
dev_write(t, data, reply) ==
    [rx   |-> t.rx \o reply,
     wire |-> Append(t.wire, Event("write", Len(data), Tag(data, "tx"), reply))]

\* self.dev.read(n): n bytes, or the fewer that arrived before the timeout
dev_read(t, n) ==
    LET k   == Min(n, Len(t.rx))
        got == SubSeq(t.rx, 1, k)
    IN  [t    |-> [rx   |-> SubSeq(t.rx, k + 1, Len(t.rx)),
                   wire |-> Append(t.wire, Event("read", n, got, <<>>))],
         data |-> Bytes(got)]

\* self.dev.reset_input_buffer()
reset_input_buffer(t) ==
    [rx |-> <<>>, wire |-> Append(t.wire, Event("reset", 0, <<>>, <<>>))]

----------------------------------------------------------------------------
(* src/src/device.py: class Device.  A method maps the transport t and the *)
(* device's replies (one per write, in order) to [t, err, ret]: the        *)
(* transport after it, the exception it raised and the value it returned.  *)

Return(t, value) == [t |-> t, err |-> NoErr, ret |-> value]
Raise(t, e)      == [t |-> t, err |-> e, ret |-> None]

\* a check that lets every reply pass
check_off(test, expected) == NoErr

\* Device.check: raises RuntimeError(f'Expected {expected}, got {test}')
check(test, expected) ==
    IF test # expected THEN RuntimeError("Expected", expected[1]) ELSE NoErr

\* Device.echo: the size bytes read are dropped (the check is commented out)
echo(t, words, size, reply) == dev_read(dev_write(t, words, reply), size).t

\* Device.wr
wr(t, data, size, reply) == dev_read(dev_write(t, data, reply), size)

\* handshake(): the bytes of the sync loop and of the three checked probes
SYNC_BYTE  == 160
SYNC_REPLY == 95
PROBES     == <<10, 80, 5>>
ECHOES     == <<245, 175, 250>>

\* one turn of the loop that leaves what it received in the input buffer
handshake_sync_noflush(t, reply) ==
    LET r == dev_read(dev_write(t, <<SYNC_BYTE>>, reply), 1)
    IN  [t |-> r.t, synced |-> r.data = <<SYNC_REPLY>>]

\* handshake(), one turn of its while loop
handshake_sync(t, reply) ==
    LET r == dev_read(dev_write(t, <<SYNC_BYTE>>, reply), 1)
    IN  IF r.data = <<SYNC_REPLY>>
        THEN [t |-> r.t, synced |-> TRUE]
        ELSE [t |-> reset_input_buffer(r.t), synced |-> FALSE]

\* handshake(), the i-th self.check(self.wr(...), ...)
handshake_probe(t, i, reply) ==
    LET r == wr(t, <<PROBES[i]>>, 1, reply)
    IN  [t |-> r.t, err |-> check(r.data, <<ECHOES[i]>>)]

\* 'if from_bytes(status, 2) != 0: raise RuntimeError(status is ...)', then value
status_check(t, status, value) ==
    LET st == from_bytes(status, 2, ">")
    IN  IF st.err # NoErr THEN Raise(t, st.err)
        ELSE IF st.val # 0 THEN Raise(t, RuntimeError("status", st.val))
        ELSE value

get_hw_sw_ver(t, replies) ==
    LET t1 == echo(t, to_bytes(GET_HW_SW_VER, 1, ">").val, 1, replies[1])
        r1 == dev_read(t1, 2)
        r2 == dev_read(r1.t, 2)
        r3 == dev_read(r2.t, 2)
        r4 == dev_read(r3.t, 2)
        a  == from_bytes(r1.data, 2, ">")
        b  == from_bytes(r2.data, 2, ">")
        c  == from_bytes(r3.data, 2, ">")
    IN  status_check(r4.t, r4.data,
            IF a.err # NoErr THEN Raise(r4.t, a.err)
            ELSE IF b.err # NoErr THEN Raise(r4.t, b.err)
            ELSE IF c.err # NoErr THEN Raise(r4.t, c.err)
            ELSE Return(r4.t, TupleVal(<<a.val, b.val, c.val>>)))

get_hw_code(t, replies) ==
    LET t1 == echo(t, to_bytes(GET_HW_CODE, 1, ">").val, 1, replies[1])
        r1 == dev_read(t1, 2)
        r2 == dev_read(r1.t, 2)
        v  == from_bytes(r1.data, 2, ">")
    IN  status_check(r2.t, r2.data,
            IF v.err # NoErr THEN Raise(r2.t, v.err)
            ELSE Return(r2.t, IntVal(v.val)))

\* a get_me_id / get_soc_id that looks at the length after it has read on
get_id_late(t, opcode, what, replies) ==
    LET t1 == echo(t, to_bytes(opcode, 1, ">").val, 1, replies[1])
        r1 == dev_read(t1, 4)
        ln == from_bytes(r1.data, 4, ">")
        r2 == dev_read(r1.t, ln.val)
        r3 == dev_read(r2.t, 2)
    IN  IF ln.err # NoErr THEN Raise(r1.t, ln.err)
        ELSE IF ln.val = 0 THEN Raise(r3.t, RuntimeError(what, 0))
        ELSE status_check(r3.t, r3.data, Return(r3.t, BytesVal(r2.data)))

\* get_me_id and get_soc_id differ in the opcode and in the message only
get_id(t, opcode, what, replies) ==
    LET t1 == echo(t, to_bytes(opcode, 1, ">").val, 1, replies[1])
        r1 == dev_read(t1, 4)
        ln == from_bytes(r1.data, 4, ">")
        r2 == dev_read(r1.t, ln.val)
        r3 == dev_read(r2.t, 2)
    IN  IF ln.err # NoErr THEN Raise(r1.t, ln.err)
        ELSE IF ln.val = 0 THEN Raise(r1.t, RuntimeError(what, 0))
        ELSE status_check(r3.t, r3.data, Return(r3.t, BytesVal(r2.data)))

get_me_id(t, replies)  == get_id(t, GET_ME_ID, "ME ID length is 0", replies)
get_soc_id(t, replies) == get_id(t, GET_SOC_ID, "SOC ID length is 0", replies)

\* the echo of reg and of val is read with echo's default size, 1
power_init(t, reg, val, replies) ==
    LET t1 == echo(t, to_bytes(PWR_INIT, 1, ">").val, 1, replies[1])
        t2 == echo(t1, to_bytes(reg, 4, ">").val, 1, replies[2])
        t3 == echo(t2, to_bytes(val, 4, ">").val, 1, replies[3])
        r  == dev_read(t3, 2)
    IN  status_check(r.t, r.data, Return(r.t, None))

power_deinit(t, replies) ==
    LET t1 == echo(t, to_bytes(PWR_DEINIT, 1, ">").val, 1, replies[1])
        r  == dev_read(t1, 2)
    IN  status_check(r.t, r.data, Return(r.t, None))

\* a send_da that writes the payload before it looks at the first status
send_da_blind(t, address, da_len, sig_len, da, replies) ==
    LET t1 == echo(t, to_bytes(SEND_DA, 1, ">").val, 1, replies[1])
        t2 == echo(t1, to_bytes(address, 4, ">").val, 4, replies[2])
        t3 == echo(t2, to_bytes(da_len, 4, ">").val, 4, replies[3])
        t4 == echo(t3, to_bytes(sig_len, 4, ">").val, 4, replies[4])
        r1 == dev_read(t4, 2)
        t5 == dev_write(r1.t, da, replies[5])
        r2 == dev_read(t5, 2)
        ck == from_bytes(r2.data, 2, ">")
        r3 == dev_read(r2.t, 2)
    IN  status_check(t5, r1.data,
            IF ck.err # NoErr THEN Raise(r2.t, ck.err)
            ELSE status_check(r3.t, r3.data, Return(r3.t, IntVal(ck.val))))

\* the sum of the bytes of a payload, 16 bits of it
RECURSIVE ByteSum(_)
ByteSum(bs) == IF bs = <<>> THEN 0 ELSE (bs[1] + ByteSum(Tail(bs))) % 65536

\* a send_da that compares the checksum of the device with one of its own
send_da_verifies(t, address, da_len, sig_len, da, replies) ==
    LET t1 == echo(t, to_bytes(SEND_DA, 1, ">").val, 1, replies[1])
        t2 == echo(t1, to_bytes(address, 4, ">").val, 4, replies[2])
        t3 == echo(t2, to_bytes(da_len, 4, ">").val, 4, replies[3])
        t4 == echo(t3, to_bytes(sig_len, 4, ">").val, 4, replies[4])
        r1 == dev_read(t4, 2)
        t5 == dev_write(r1.t, da, replies[5])
        r2 == dev_read(t5, 2)
        ck == from_bytes(r2.data, 2, ">")
        r3 == dev_read(r2.t, 2)
    IN  status_check(r1.t, r1.data,
            IF ck.err # NoErr THEN Raise(r2.t, ck.err)
            ELSE IF ck.val # ByteSum(da) THEN Raise(r2.t, RuntimeError("checksum", ck.val))
            ELSE status_check(r3.t, r3.data, Return(r3.t, IntVal(ck.val))))

\* a send_da that reads the second status and returns whatever it is
send_da_lax(t, address, da_len, sig_len, da, replies) ==
    LET t1 == echo(t, to_bytes(SEND_DA, 1, ">").val, 1, replies[1])
        t2 == echo(t1, to_bytes(address, 4, ">").val, 4, replies[2])
        t3 == echo(t2, to_bytes(da_len, 4, ">").val, 4, replies[3])
        t4 == echo(t3, to_bytes(sig_len, 4, ">").val, 4, replies[4])
        r1 == dev_read(t4, 2)
        t5 == dev_write(r1.t, da, replies[5])
        r2 == dev_read(t5, 2)
        ck == from_bytes(r2.data, 2, ">")
        r3 == dev_read(r2.t, 2)
    IN  status_check(r1.t, r1.data,
            IF ck.err # NoErr THEN Raise(r2.t, ck.err)
            ELSE Return(r3.t, IntVal(ck.val)))

send_da(t, address, da_len, sig_len, da, replies) ==
    LET t1 == echo(t, to_bytes(SEND_DA, 1, ">").val, 1, replies[1])
        t2 == echo(t1, to_bytes(address, 4, ">").val, 4, replies[2])
        t3 == echo(t2, to_bytes(da_len, 4, ">").val, 4, replies[3])
        t4 == echo(t3, to_bytes(sig_len, 4, ">").val, 4, replies[4])
        r1 == dev_read(t4, 2)
        t5 == dev_write(r1.t, da, replies[5])
        r2 == dev_read(t5, 2)
        ck == from_bytes(r2.data, 2, ">")
        r3 == dev_read(r2.t, 2)
    IN  status_check(r1.t, r1.data,
            IF ck.err # NoErr THEN Raise(r2.t, ck.err)
            ELSE status_check(r3.t, r3.data, Return(r3.t, IntVal(ck.val))))

\* a jump_da that treats its status as the other commands do
jump_da_checked(t, address, replies) ==
    LET t1 == echo(t, to_bytes(JUMP_DA, 1, ">").val, 1, replies[1])
        t2 == echo(t1, to_bytes(address, 4, ">").val, 1, replies[2])
        r  == dev_read(t2, 2)
    IN  status_check(r.t, r.data, Return(r.t, None))

\* the echo of address is read with echo's default size, 1; status is not looked at
jump_da(t, address, replies) ==
    LET t1 == echo(t, to_bytes(JUMP_DA, 1, ">").val, 1, replies[1])
        t2 == echo(t1, to_bytes(address, 4, ">").val, 1, replies[2])
        r  == dev_read(t2, 2)
    IN  Return(r.t, None)

\* f'{v:04X}', '%08X' % v, bytes.hex().upper(): the hexadecimal digits of v, at
\* least width of them, most significant first
RECURSIVE HexDigits(_, _)
HexDigits(v, width) ==
    IF v < 16 /\ width <= 1 THEN <<v>>
    ELSE Append(HexDigits(v \div 16, width - 1), v % 16)

RECURSIVE HexOfBytes(_)
HexOfBytes(bs) ==
    IF bs = <<>> THEN <<>> ELSE HexDigits(bs[1], 2) \o HexOfBytes(Tail(bs))

\* one logging.info line: its text and the digits of the values it formats
Line(msg, digits) == [msg |-> msg, val |-> digits]

\* six lines with the two versions the other way round
identify_lines_swapped(hc, hsc, hv, sv, me, soc) ==
    << Line("HW Code", HexDigits(hc, 4)),
       Line("HW Sub-Code", HexDigits(hsc, 4)),
       Line("HW Version", HexDigits(sv, 4)),
       Line("SW Version", HexDigits(hv, 4)),
       Line("ME ID", HexOfBytes(me)),
       Line("SOC ID", HexOfBytes(soc)) >>

\* identify(): the six logging.info lines after the four commands
identify_lines(hc, hsc, hv, sv, me, soc) ==
    << Line("HW Code", HexDigits(hc, 4)),
       Line("HW Sub-Code", HexDigits(hsc, 4)),
       Line("HW Version", HexDigits(hv, 4)),
       Line("SW Version", HexDigits(sv, 4)),
       Line("ME ID", HexOfBytes(me)),
       Line("SOC ID", HexOfBytes(soc)) >>

----------------------------------------------------------------------------
(* src/src/utils.py, find_port: one turn of its while loop over            *)
(* serial.tools.list_ports.comports().                                     *)

VENDOR_ID  == 3725
PRODUCT_ID == 8192

\* a scan that looks at the vendor id only
find_port_scan_vendor(ports, vendor_id, product_id) ==
    LET hits == {i \in 1..Len(ports) : ports[i].vid = vendor_id}
    IN  IF hits = {} THEN ""
        ELSE ports[CHOOSE i \in hits : \A j \in hits : i <= j].device

\* the device of the first port with the ids asked for; "" when the for loop ends
find_port_scan(ports, vendor_id, product_id) ==
    LET hits == {i \in 1..Len(ports) :
                    ports[i].vid = vendor_id /\ ports[i].pid = product_id}
    IN  IF hits = {} THEN ""
        ELSE ports[CHOOSE i \in hits : \A j \in hits : i <= j].device

----------------------------------------------------------------------------
(* The environment: the ports of the host and the device on the line.      *)

PreloaderPort == [vid |-> VENDOR_ID, pid |-> PRODUCT_ID, device |-> "/dev/ttyACM0"]
BootRomPort   == [vid |-> VENDOR_ID, pid |-> 3, device |-> "/dev/ttyACM1"]
Comports == { <<>>, <<BootRomPort>>, <<BootRomPort, PreloaderPort>> }

\* the identity of a device: what it answers to the four identification commands
Chips ==
    { [hw_code |-> 4660, hw_sub_code |-> 35328, hw_ver |-> 51713, sw_ver |-> 1,
       me_id |-> <<170, 1>>, soc_id |-> <<187>>],
      [hw_code |-> 1815, hw_sub_code |-> 138, hw_ver |-> 202, sw_ver |-> 512,
       me_id |-> <<7>>, soc_id |-> <<92, 0>>] }

Statuses  == {0, 1, 256}
Checksums == {43981, 205}
Payloads  == { <<218>>, <<218, 122, 1>> }

\* what the device chooses in one exchange: to garble its echoes, the status (and
\* in SEND_DA the checksum and the second status) it reports, how many bytes at
\* the end of its last reply never arrive, and (GET_ME_ID, GET_SOC_ID) to
\* declare an identity of length 0
Script(g, s, d, s2, c, e) ==
    [garble |-> g, status |-> s, drop |-> d, status2 |-> s2, cksum |-> c, empty |-> e]
\* the line spoils an exchange in one way at most: it garbles the echoes or it
\* loses the last d bytes
LineFaults ==
    { [garble |-> FALSE, drop |-> 0], [garble |-> TRUE, drop |-> 0] }
    \cup { [garble |-> FALSE, drop |-> d] : d \in (1..MaxDrop) \cup {MaxReply} }
SimpleScripts ==
    { Script(f.garble, s, f.drop, 0, 0, FALSE) : f \in LineFaults, s \in Statuses }
IdScripts ==
    { Script(f.garble, s, f.drop, 0, 0, e) :
        f \in LineFaults, s \in Statuses, e \in BOOLEAN }
DaScripts ==
    { Script(f.garble, s, f.drop, 0, 0, FALSE) : f \in LineFaults, s \in Statuses \ {0} }
    \cup { Script(f.garble, 0, f.drop, s2, c, FALSE) :
             f \in LineFaults, s2 \in Statuses, c \in Checksums }

\* a bit of every byte flipped on the line
Garbled(words) ==
    [i \in 1..Len(words) |-> IF words[i] % 2 = 0 THEN words[i] + 1 ELSE words[i] - 1]
\* the device repeats the field it received, all of it
Echo(words, g) == Tag(IF g THEN Garbled(words) ELSE words, "echo")
Word(v, n, k)  == Tag(struct_pack(">", n, v), k)
Cut(reply, d)  == SubSeq(reply, 1, Len(reply) - Min(d, Len(reply)))

SyncReplies == { <<>>, Tag(<<SYNC_REPLY>>, "sync"), Tag(<<0>>, "junk"),
                 Tag(<<0, SYNC_REPLY>>, "junk") }
ProbeReplies(i) == { <<>>, Tag(<<ECHOES[i]>>, "probe"),
                     Tag(<<ECHOES[(i % 3) + 1]>>, "junk") }

HwCodeReplies(c, d) ==
    << Cut(Echo(<<GET_HW_CODE>>, d.garble) \o Word(c.hw_code, 2, "hw_code")
           \o Word(d.status, 2, "status"), d.drop) >>
HwSwVerReplies(c, d) ==
    << Cut(Echo(<<GET_HW_SW_VER>>, d.garble) \o Word(c.hw_sub_code, 2, "hw_sub_code")
           \o Word(c.hw_ver, 2, "hw_ver") \o Word(c.sw_ver, 2, "sw_ver")
           \o Word(d.status, 2, "status"), d.drop) >>
IdReplies(opcode, id, d) ==
    LET sent == IF d.empty THEN <<>> ELSE id
    IN  << Cut(Echo(<<opcode>>, d.garble) \o Word(Len(sent), 4, "length")
               \o Tag(sent, "id") \o Word(d.status, 2, "status"), d.drop) >>
PowerInitReplies(reg, val, d) ==
    << Echo(<<PWR_INIT>>, d.garble),
       Echo(struct_pack(">", 4, reg), d.garble),
       Cut(Echo(struct_pack(">", 4, val), d.garble) \o Word(d.status, 2, "status"),
           d.drop) >>
PowerDeinitReplies(d) ==
    << Cut(Echo(<<PWR_DEINIT>>, d.garble) \o Word(d.status, 2, "status"), d.drop) >>
\* a device that refused the header (status # 0) sends nothing after the payload
SendDaReplies(address, da_len, sig_len, d) ==
    << Echo(<<SEND_DA>>, d.garble),
       Echo(struct_pack(">", 4, address), d.garble),
       Echo(struct_pack(">", 4, da_len), d.garble),
       Cut(Echo(struct_pack(">", 4, sig_len), d.garble) \o Word(d.status, 2, "status"),
           IF d.status # 0 THEN d.drop ELSE 0),
       IF d.status # 0 THEN <<>>
       ELSE Cut(Word(d.cksum, 2, "checksum") \o Word(d.status2, 2, "status"), d.drop) >>
JumpDaReplies(address, d) ==
    << Echo(<<JUMP_DA>>, d.garble),
       Cut(Echo(struct_pack(">", 4, address), d.garble) \o Word(d.status, 2, "status"),
           d.drop) >>

\* the arguments the api client may pass
Regs == {0, 1}
Vals == {3}
Methods == { "handshake", "identify", "get_hw_code", "get_hw_sw_ver", "get_me_id",
             "get_soc_id", "power_init", "power_deinit", "send_da", "jump_da" }
NoArgs == [address |-> 0, da_len |-> 0, sig_len |-> 0, da |-> <<>>, reg |-> 0, val |-> 0]
\* arguments of send_da with the signature length where the payload length goes
ArgsOf_siglen(m, reg, val, da, da_len) ==
    CASE m = "power_init" -> [NoArgs EXCEPT !.reg = reg, !.val = val]
      [] m = "send_da" -> [NoArgs EXCEPT !.address = DA_ADDRESS, !.sig_len = DA_SIG_LEN,
                                         !.da_len = DA_SIG_LEN, !.da = da]
      [] m = "jump_da" -> [NoArgs EXCEPT !.address = DA_ADDRESS]
      [] OTHER -> NoArgs

ArgsOf(m, reg, val, da, da_len) ==
    CASE m = "power_init" -> [NoArgs EXCEPT !.reg = reg, !.val = val]
      [] m = "send_da" -> [NoArgs EXCEPT !.address = DA_ADDRESS, !.sig_len = DA_SIG_LEN,
                                         !.da_len = da_len, !.da = da]
      [] m = "jump_da" -> [NoArgs EXCEPT !.address = DA_ADDRESS]
      [] OTHER -> NoArgs

ArgChoices(m) ==
    CASE m = "power_init" -> { ArgsOf(m, reg, val, <<>>, 0) : reg \in Regs, val \in Vals }
      [] m = "send_da" -> { ArgsOf(m, 0, 0, da, da_len) :
                              da \in {<<218>>}, da_len \in {1, 2} }
      [] OTHER -> { ArgsOf(m, 0, 0, <<>>, 0) }

----------------------------------------------------------------------------
(* Ghosts of an exchange.                                                  *)

\* the byte strings written in the events w, in order
RECURSIVE Written(_)
Written(w) ==
    IF w = <<>> THEN <<>>
    ELSE (IF w[1].op = "write" THEN <<Bytes(w[1].data)>> ELSE <<>>) \o Written(Tail(w))

\* what a command did, as its caller sees it: the exception, the value, the writes
Outcome(o, before) ==
    [err |-> o.err, ret |-> o.ret,
     tx  |-> Written(SubSeq(o.t.wire, Len(before) + 1, Len(o.t.wire)))]

NoScript == Script(FALSE, 0, 0, 0, 0, FALSE)
NoExch == [cmd |-> "", fresh |-> TRUE, from |-> 0,
           out   |-> [err |-> NoErr, ret |-> None, tx |-> <<>>],
           plain |-> [err |-> NoErr, ret |-> None, tx |-> <<>>]]
\* the script d with the echoes as the device received them
Plain(d) == [d EXCEPT !.garble = FALSE]

----------------------------------------------------------------------------
(* The codec on its own: the arguments a caller may pass to to_bytes and   *)
(* from_bytes.                                                             *)

CodecValues  == { -1, 0, 1, 127, 128, 255, 256, 4660, 65535, 65536, 16777216, MaxInt }
CodecSizes   == { -1, 0, 1, 2, 3, 4, 5, 8 }
CodecEndians == { ">", "<" }
CodecBuffers == { <<>>, <<7>>, <<1, 2>>, <<1, 2, 3>>, <<128, 0, 0, 1>> }

\* no call of the codec on its own is under way
NoCodec == [phase |-> "idle", value |-> 0, size |-> 1, endian |-> ">", buffer |-> <<>>,
            enc |-> [err |-> NoErr, val |-> <<>>], dec |-> [err |-> NoErr, val |-> 0]]

----------------------------------------------------------------------------
(* find_port on its own: the arguments a caller may pass, and the clock.   *)

\* timeout=None, or a number of seconds
NoTimeout   == [none |-> TRUE, secs |-> 0]
Timeout(s)  == [none |-> FALSE, secs |-> s]
Timeouts    == {NoTimeout} \cup { Timeout(s) : s \in 0..(MaxClock - 1) }
\* the pairs of ids asked for: the preloader's, the boot ROM's, nobody's
IdPairs     == { <<VENDOR_ID, PRODUCT_ID>>, <<VENDOR_ID, 3>>, <<VENDOR_ID, 1>> }

\* no call of find_port on its own is under way
NoDisc == [phase |-> "idle", vendor_id |-> VENDOR_ID, product_id |-> PRODUCT_ID,
           timeout |-> NoTimeout, elapsed |-> 0, scanned |-> <<>>, scans |-> 0,
           seen |-> FALSE, result |-> ""]

\* the endpoints of ports with the ids asked for
Matching(ports, vendor_id, product_id) ==
    { i \in 1..Len(ports) : ports[i].vid = vendor_id /\ ports[i].pid = product_id }

\* find_device() from the log line on, self.port being what find_port returned
find_device_open(found) ==
    [port   |-> found,
     logged |-> <<Line("Found device", <<>>)>>,
     err    |-> IF found = "" THEN RuntimeError("Device not found", 0) ELSE NoErr,
     dev    |-> (found # "")]

----------------------------------------------------------------------------
(* The state machine.                                                      *)

T == [rx |-> rx, wire |-> wire]

Init ==
    /\ caller \in {"main", "api"}
    /\ pc = IF caller = "main" THEN "main_71" ELSE "api"
    /\ skip_handshake \in (IF caller = "main" THEN BOOLEAN ELSE {FALSE})
    /\ mode_identify \in (IF caller = "main" THEN BOOLEAN ELSE {FALSE})
    /\ payload = <<>>
    /\ port \in (IF caller = "main" THEN {"", "/dev/ttyACM0"} ELSE {"/dev/ttyACM0"})
    /\ dev = (port # "")
    /\ rx = <<>>
    /\ wire = <<>>
    /\ logged = <<>>
    /\ err = NoErr
    /\ ret = None
    /\ done = {}
    /\ method = ""
    /\ clean = TRUE
    /\ hw_code = -1 /\ hw_sub_code = -1 /\ hw_ver = -1 /\ sw_ver = -1
    /\ me_id = <<>> /\ soc_id = <<>>
    /\ argv = NoArgs
    /\ exch = NoExch
    /\ chip \in Chips
    /\ script = NoScript
    /\ nsync = 0
    /\ probe = 1
    /\ noise = 0
    /\ calls = 0
    /\ codec = NoCodec
    /\ disc = NoDisc

\* the caller invokes method m with the arguments a; lines is what the caller
\* logs on the way.  The locals of the method and the ghosts start afresh.
Invoke(m, a, lines) ==
    /\ method' = m
    /\ clean' = (rx = <<>>)
    /\ pc' = CASE m = "identify" -> "get_hw_code"
               [] m = "handshake" -> "handshake_sync"
               [] OTHER -> m
    /\ argv' = a
    /\ wire' = <<>>
    /\ logged' = lines
    /\ err' = NoErr
    /\ ret' = None
    /\ hw_code' = -1 /\ hw_sub_code' = -1 /\ hw_ver' = -1 /\ sw_ver' = -1
    /\ me_id' = <<>> /\ soc_id' = <<>>
    /\ exch' = NoExch
    /\ script' = NoScript
    /\ nsync' = 0
    /\ probe' = 1
    /\ noise' = 0
    /\ UNCHANGED <<caller, skip_handshake, mode_identify, codec, disc, session, rx, done,
                   chip>>

\* where the caller goes on when method m returns
Back(m) ==
    IF caller = "api" THEN "api"
    ELSE CASE m = "find_device" -> "main_73"
           [] m = "handshake" -> "main_76"
           [] m = "identify" -> "main_78"
           [] m = "send_da" -> "main_84"
           [] OTHER -> "exit"

\* a caller that goes on after an exception as after a return
Unwind_caught == Back(method)

\* an exception leaves main (the process ends with a traceback); the api client
\* catches it and may go on
Unwind == IF caller = "main" THEN "crashed" ELSE "api"

\* the running method returns value to the caller
Returned(value) ==
    /\ pc' = Back(method)
    /\ ret' = value
    /\ done' = IF caller = "main" THEN done \cup {method} ELSE done

\* an identify() that goes on to its second command when the first raised
Raised_swallowed ==
    /\ pc' = IF method = "identify" /\ pc = "get_hw_code" THEN "get_hw_sw_ver" ELSE Unwind
    /\ ret' = None
    /\ done' = done

\* the exception of a command goes up, through identify() if it called
Raised ==
    /\ pc' = Unwind
    /\ ret' = None
    /\ done' = done

\* main, line 71
MainFindDevice ==
    /\ pc = "main_71"
    /\ Invoke("find_device", NoArgs, <<Line("Waiting for device...", <<>>)>>)
    /\ UNCHANGED <<payload, calls>>

\* a main that calls handshake() whatever args.skip_handshake says
MainHandshake_always ==
    /\ pc = "main_73"
    /\ Invoke("handshake", NoArgs, <<>>)
    /\ UNCHANGED <<payload, calls>>

\* main, lines 73-74
MainHandshake ==
    /\ pc = "main_73"
    /\ IF skip_handshake
       THEN /\ pc' = "main_76"
            /\ UNCHANGED <<args, session, line, logged, err, ret, done, method, clean, idvars,
                           argv, exch, envvars, nsync, probe>>
       ELSE Invoke("handshake", NoArgs, <<>>) /\ UNCHANGED payload
    /\ UNCHANGED calls

\* main, line 76
MainIdentify ==
    /\ pc = "main_76"
    /\ Invoke("identify", NoArgs, <<>>)
    /\ UNCHANGED <<payload, calls>>

\* a main that uploads whatever args.mode_identify says
MainSendDa_always ==
    /\ pc = "main_78"
    /\ \E da \in Payloads :
        /\ payload' = da
        /\ Invoke("send_da", ArgsOf("send_da", 0, 0, da, Len(da)),
                  <<Line("Load payload", HexDigits(Len(da), 8))>>)
    /\ UNCHANGED calls

\* main, lines 78-83: identify-only mode ends here; else the payload file is
\* read and send_da(0x200000, len(da), 0x100, da) is called
MainSendDa ==
    /\ pc = "main_78"
    /\ IF mode_identify
       THEN /\ pc' = "exit"
            /\ UNCHANGED <<args, session, line, logged, err, ret, done, method, clean, idvars,
                           argv, exch, envvars, nsync, probe>>
       ELSE \E da \in Payloads :
            /\ payload' = da
            /\ Invoke("send_da", ArgsOf("send_da", 0, 0, da, Len(da)),
                      <<Line("Load payload", HexDigits(Len(da), 8))>>)
    /\ UNCHANGED calls

\* main, line 84
MainJumpDa ==
    /\ pc = "main_84"
    /\ Invoke("jump_da", ArgsOf("jump_da", 0, 0, <<>>, 0), <<>>)
    /\ UNCHANGED <<payload, calls>>

\* the api client calls a method of its Device; handshake() only on a new session
ApiCall ==
    /\ pc = "api"
    /\ calls < MaxCalls
    /\ \E m \in Methods :
        /\ m = "handshake" => calls = 0
        /\ \E a \in ArgChoices(m) : Invoke(m, a, <<>>)
    /\ calls' = calls + 1
    /\ UNCHANGED payload

\* find_device(), self.dev already set: Device(port) opened it
FindDeviceAlready ==
    /\ pc = "find_device"
    /\ dev
    /\ logged' = Append(logged, Line("Device already found!", <<>>))
    /\ Returned(None)
    /\ UNCHANGED <<args, session, line, err, method, clean, idvars, argv, exch, envvars,
                   nsync, probe, calls>>

\* find_device() in find_port(vendor_id, product_id), timeout None: one scan of
\* comports(); a hit is returned, logged and opened, a miss scans again
FindDevicePoll ==
    /\ pc = "find_device"
    /\ ~dev
    /\ \E ports \in Comports :
        LET found == find_port_scan(ports, VENDOR_ID, PRODUCT_ID)
        IN  IF found = ""
            THEN UNCHANGED <<pc, port, dev, logged, ret, done>>
            ELSE /\ port' = found
                 /\ dev' = TRUE
                 /\ logged' = Append(logged, Line("Found device", <<>>))
                 /\ Returned(None)
    /\ UNCHANGED <<args, line, err, method, clean, idvars, argv, exch, envvars,
                   nsync, probe, calls>>

\* a sync loop that raises when a probe is not answered with 0x5F
HandshakeSync_gives_up ==
    /\ pc = "handshake_sync"
    /\ \E reply \in SyncReplies :
        LET o == handshake_sync(T, reply)
        IN  /\ rx' = o.t.rx
            /\ wire' = o.t.wire
            /\ IF o.synced
               THEN /\ pc' = "handshake_probe"
                    /\ done' = IF caller = "main" THEN done \cup {"sync"} ELSE done
                    /\ UNCHANGED <<err, ret>>
               ELSE /\ err' = RuntimeError("sync", 0)
                    /\ Raised
    /\ nsync' = nsync + 1
    /\ UNCHANGED <<args, session, logged, method, clean, idvars, argv, exch,
                   envvars, probe, calls>>

\* handshake(): one turn of the sync loop
HandshakeSync ==
    /\ pc = "handshake_sync"
    /\ \E reply \in SyncReplies :
        /\ nsync < MaxSync \/ reply = Tag(<<SYNC_REPLY>>, "sync")
        /\ LET o == handshake_sync(T, reply)
           IN  /\ rx' = o.t.rx
               /\ wire' = o.t.wire
               /\ pc' = IF o.synced THEN "handshake_probe" ELSE "handshake_sync"
               /\ done' = IF o.synced /\ caller = "main"
                          THEN done \cup {"sync"} ELSE done
    /\ nsync' = nsync + 1
    /\ UNCHANGED <<args, session, logged, err, ret, method, clean, idvars, argv, exch,
                   envvars, probe, calls>>

\* handshake(): one of the three checked probes; after the third, the log line
\* and the return
HandshakeProbe ==
    /\ pc = "handshake_probe"
    /\ \E reply \in ProbeReplies(probe) :
        LET o == handshake_probe(T, probe, reply)
        IN  /\ rx' = o.t.rx
            /\ wire' = o.t.wire
            /\ err' = o.err
            /\ IF o.err # NoErr
               THEN Raised /\ UNCHANGED <<probe, logged>>
               ELSE IF probe < 3
               THEN /\ probe' = probe + 1
                    /\ UNCHANGED <<pc, ret, done, logged>>
               ELSE /\ Returned(None)
                    /\ logged' = Append(logged, Line("Handshake completed!", <<>>))
                    /\ UNCHANGED probe
    /\ UNCHANGED <<args, session, method, clean, idvars, argv, exch, envvars, nsync, calls>>

\* what every command exchange leaves behind: o is what the command did, plain
\* what it would have done had the device echoed what it received
Finish(name, d, o, plain) ==
    /\ rx' = o.t.rx
    /\ wire' = o.t.wire
    /\ err' = o.err
    /\ script' = d
    /\ noise' = noise + (IF d.garble THEN 1 ELSE 0)
    /\ exch' = [cmd |-> name, fresh |-> rx = <<>>, from |-> Len(wire),
                out |-> Outcome(o, wire), plain |-> Outcome(plain, wire)]
    /\ UNCHANGED <<args, session, chip, method, clean, nsync, probe, calls>>

\* identify(), line 263, or a call of get_hw_code()
GetHwCode ==
    /\ pc = "get_hw_code"
    /\ \E d \in SimpleScripts :
        /\ d.garble => noise < MaxNoise
        /\ LET o == get_hw_code(T, HwCodeReplies(chip, d))
           IN  /\ Finish("get_hw_code", d, o, get_hw_code(T, HwCodeReplies(chip, Plain(d))))
               /\ IF o.err # NoErr THEN Raised /\ UNCHANGED hw_code
                  ELSE IF method = "identify"
                  THEN /\ hw_code' = o.ret.val[1]
                       /\ pc' = "get_hw_sw_ver"
                       /\ UNCHANGED <<ret, done>>
                  ELSE Returned(o.ret) /\ UNCHANGED hw_code
    /\ UNCHANGED <<logged, argv, hw_sub_code, hw_ver, sw_ver, me_id, soc_id>>

\* identify(), line 264, or a call of get_hw_sw_ver()
GetHwSwVer ==
    /\ pc = "get_hw_sw_ver"
    /\ \E d \in SimpleScripts :
        /\ d.garble => noise < MaxNoise
        /\ LET o == get_hw_sw_ver(T, HwSwVerReplies(chip, d))
           IN  /\ Finish("get_hw_sw_ver", d, o,
                         get_hw_sw_ver(T, HwSwVerReplies(chip, Plain(d))))
               /\ IF o.err # NoErr
                  THEN Raised /\ UNCHANGED <<hw_sub_code, hw_ver, sw_ver>>
                  ELSE IF method = "identify"
                  THEN /\ hw_sub_code' = o.ret.val[1]
                       /\ hw_ver' = o.ret.val[2]
                       /\ sw_ver' = o.ret.val[3]
                       /\ pc' = "get_me_id"
                       /\ UNCHANGED <<ret, done>>
                  ELSE Returned(o.ret) /\ UNCHANGED <<hw_sub_code, hw_ver, sw_ver>>
    /\ UNCHANGED <<logged, argv, hw_code, me_id, soc_id>>

\* an identify() that logs the ME ID as soon as it has it
GetMeId_eager ==
    /\ pc = "get_me_id"
    /\ \E d \in IdScripts :
        /\ d.garble => noise < MaxNoise
        /\ LET o == get_me_id(T, IdReplies(GET_ME_ID, chip.me_id, d))
           IN  /\ Finish("get_me_id", d, o,
                         get_me_id(T, IdReplies(GET_ME_ID, chip.me_id, Plain(d))))
               /\ IF o.err # NoErr THEN Raised /\ UNCHANGED <<me_id, logged>>
                  ELSE IF method = "identify"
                  THEN /\ me_id' = o.ret.val
                       /\ logged' = Append(logged, Line("ME ID", HexOfBytes(o.ret.val)))
                       /\ pc' = "get_soc_id"
                       /\ UNCHANGED <<ret, done>>
                  ELSE Returned(o.ret) /\ UNCHANGED <<me_id, logged>>
    /\ UNCHANGED <<argv, hw_code, hw_sub_code, hw_ver, sw_ver, soc_id>>

\* identify(), line 265, or a call of get_me_id()
GetMeId ==
    /\ pc = "get_me_id"
    /\ \E d \in IdScripts :
        /\ d.garble => noise < MaxNoise
        /\ LET o == get_me_id(T, IdReplies(GET_ME_ID, chip.me_id, d))
           IN  /\ Finish("get_me_id", d, o,
                         get_me_id(T, IdReplies(GET_ME_ID, chip.me_id, Plain(d))))
               /\ IF o.err # NoErr THEN Raised /\ UNCHANGED me_id
                  ELSE IF method = "identify"
                  THEN /\ me_id' = o.ret.val
                       /\ pc' = "get_soc_id"
                       /\ UNCHANGED <<ret, done>>
                  ELSE Returned(o.ret) /\ UNCHANGED me_id
    /\ UNCHANGED <<logged, argv, hw_code, hw_sub_code, hw_ver, sw_ver, soc_id>>

\* identify(), lines 266-272: the last command, the six log lines and the return
\* (of None); or a call of get_soc_id()
GetSocId ==
    /\ pc = "get_soc_id"
    /\ \E d \in IdScripts :
        /\ d.garble => noise < MaxNoise
        /\ LET o == get_soc_id(T, IdReplies(GET_SOC_ID, chip.soc_id, d))
           IN  /\ Finish("get_soc_id", d, o,
                         get_soc_id(T, IdReplies(GET_SOC_ID, chip.soc_id, Plain(d))))
               /\ IF o.err # NoErr THEN Raised /\ UNCHANGED <<soc_id, logged>>
                  ELSE IF method = "identify"
                  THEN /\ soc_id' = o.ret.val
                       /\ logged' = logged \o identify_lines(hw_code, hw_sub_code,
                                        hw_ver, sw_ver, me_id, o.ret.val)
                       /\ Returned(None)
                  ELSE Returned(o.ret) /\ UNCHANGED <<soc_id, logged>>
    /\ UNCHANGED <<argv, hw_code, hw_sub_code, hw_ver, sw_ver, me_id>>

\* power_init(reg, val)
PowerInit ==
    /\ pc = "power_init"
    /\ \E d \in SimpleScripts :
        /\ d.garble => noise < MaxNoise
        /\ LET o == power_init(T, argv.reg, argv.val,
                               PowerInitReplies(argv.reg, argv.val, d))
           IN  /\ Finish("power_init", d, o,
                         power_init(T, argv.reg, argv.val,
                                    PowerInitReplies(argv.reg, argv.val, Plain(d))))
               /\ IF o.err # NoErr THEN Raised ELSE Returned(o.ret)
    /\ logged' = Append(logged, Line("Init PMIC",
                        HexDigits(argv.reg, 4) \o HexDigits(argv.val, 4)))
    /\ UNCHANGED <<argv, idvars>>

\* power_deinit()
PowerDeinit ==
    /\ pc = "power_deinit"
    /\ \E d \in SimpleScripts :
        /\ d.garble => noise < MaxNoise
        /\ LET o == power_deinit(T, PowerDeinitReplies(d))
           IN  /\ Finish("power_deinit", d, o, power_deinit(T, PowerDeinitReplies(Plain(d))))
               /\ IF o.err # NoErr THEN Raised ELSE Returned(o.ret)
    /\ logged' = Append(logged, Line("Deinit PMIC", <<>>))
    /\ UNCHANGED <<argv, idvars>>

\* send_da(address, da_len, sig_len, da)
SendDa ==
    /\ pc = "send_da"
    /\ \E d \in DaScripts :
        /\ d.garble => noise < MaxNoise
        /\ LET o == send_da(T, argv.address, argv.da_len, argv.sig_len, argv.da,
                        SendDaReplies(argv.address, argv.da_len, argv.sig_len, d))
           IN  /\ Finish("send_da", d, o,
                     send_da(T, argv.address, argv.da_len, argv.sig_len, argv.da,
                       SendDaReplies(argv.address, argv.da_len, argv.sig_len, Plain(d))))
               /\ IF o.err # NoErr THEN Raised ELSE Returned(o.ret)
    /\ logged' = Append(logged, Line("Send DA", HexDigits(argv.address, 8)))
    /\ UNCHANGED <<argv, idvars>>

\* jump_da(address)
JumpDa ==
    /\ pc = "jump_da"
    /\ \E d \in SimpleScripts :
        /\ d.garble => noise < MaxNoise
        /\ LET o == jump_da(T, argv.address, JumpDaReplies(argv.address, d))
           IN  /\ Finish("jump_da", d, o,
                         jump_da(T, argv.address, JumpDaReplies(argv.address, Plain(d))))
               /\ IF o.err # NoErr THEN Raised ELSE Returned(o.ret)
    /\ logged' = Append(logged, Line("Jump to DA", HexDigits(argv.address, 8)))
    /\ UNCHANGED <<argv, idvars>>

Next ==
    \/ MainFindDevice
    \/ MainHandshake
    \/ MainIdentify
    \/ MainSendDa
    \/ MainJumpDa
    \/ ApiCall
    \/ FindDeviceAlready
    \/ FindDevicePoll
    \/ HandshakeSync
    \/ HandshakeProbe
    \/ GetHwCode
    \/ GetHwSwVer
    \/ GetMeId
    \/ GetSocId
    \/ PowerInit
    \/ PowerDeinit
    \/ SendDa
    \/ JumpDa

Spec == Init /\ [][Next]_vars

\* the program runs: a handshake() that stands in its sync loop takes its next
\* turn.  The device of the model answers the probe after MaxSync misses at
\* the latest.
LiveSpec == Init /\ [][Next]_vars /\ WF_vars(HandshakeSync)

----------------------------------------------------------------------------
(* The codec, called on its own: to_bytes(value, size, endian), then        *)
(* from_bytes of what it returned; and from_bytes(buffer, size, endian).    *)

CodecInit ==
    /\ pc = "codec"
    /\ caller = "api" /\ skip_handshake = FALSE /\ mode_identify = FALSE
    /\ payload = <<>>
    /\ port = "" /\ dev = FALSE
    /\ rx = <<>> /\ wire = <<>> /\ logged = <<>>
    /\ err = NoErr /\ ret = None
    /\ done = {} /\ method = "" /\ clean = TRUE
    /\ hw_code = -1 /\ hw_sub_code = -1 /\ hw_ver = -1 /\ sw_ver = -1
    /\ me_id = <<>> /\ soc_id = <<>>
    /\ argv = NoArgs /\ exch = NoExch
    /\ chip = CHOOSE c \in Chips : TRUE
    /\ script = NoScript
    /\ nsync = 0 /\ probe = 1 /\ noise = 0 /\ calls = 0
    /\ codec \in { [NoCodec EXCEPT !.phase = "args", !.value = v, !.size = w,
                                   !.endian = e, !.buffer = b] :
                     v \in CodecValues, w \in CodecSizes, e \in CodecEndians,
                     b \in CodecBuffers }
    /\ disc = NoDisc

to_bytes_call ==
    /\ codec.phase = "args"
    /\ codec' = [codec EXCEPT !.phase = "encoded",
                              !.enc = to_bytes(codec.value, codec.size, codec.endian)]
    /\ UNCHANGED <<pc, caller, skip_handshake, mode_identify, payload, disc, session,
                   line, logged, err, ret, done, method, clean, idvars, argv, exch,
                   envvars, nsync, probe, calls>>

from_bytes_back ==
    /\ codec.phase = "encoded"
    /\ codec.enc.err = NoErr
    /\ codec' = [codec EXCEPT !.phase = "decoded",
                              !.dec = from_bytes(codec.enc.val, codec.size, codec.endian)]
    /\ UNCHANGED <<pc, caller, skip_handshake, mode_identify, payload, disc, session,
                   line, logged, err, ret, done, method, clean, idvars, argv, exch,
                   envvars, nsync, probe, calls>>

from_bytes_call ==
    /\ codec.phase = "args"
    /\ codec' = [codec EXCEPT !.phase = "parsed",
                              !.dec = from_bytes(codec.buffer, codec.size, codec.endian)]
    /\ UNCHANGED <<pc, caller, skip_handshake, mode_identify, payload, disc, session,
                   line, logged, err, ret, done, method, clean, idvars, argv, exch,
                   envvars, nsync, probe, calls>>

CodecNext ==
    \/ to_bytes_call
    \/ from_bytes_back
    \/ from_bytes_call

CodecSpec == CodecInit /\ [][CodecNext]_vars

----------------------------------------------------------------------------
(* find_port(vendor_id, product_id, timeout), called on its own; then the  *)
(* rest of find_device() on what it returned.  disc.elapsed is             *)
(* time.time() - start: the clock may have moved before the loop tests it  *)
(* for the first time, and moves between two turns.                        *)

DiscInit ==
    /\ pc = "find_port"
    /\ caller = "api" /\ skip_handshake = FALSE /\ mode_identify = FALSE
    /\ payload = <<>>
    /\ port = "" /\ dev = FALSE
    /\ rx = <<>> /\ wire = <<>> /\ logged = <<>>
    /\ err = NoErr /\ ret = None
    /\ done = {} /\ method = "find_device" /\ clean = TRUE
    /\ hw_code = -1 /\ hw_sub_code = -1 /\ hw_ver = -1 /\ sw_ver = -1
    /\ me_id = <<>> /\ soc_id = <<>>
    /\ argv = NoArgs /\ exch = NoExch
    /\ chip = CHOOSE c \in Chips : TRUE
    /\ script = NoScript
    /\ nsync = 0 /\ probe = 1 /\ noise = 0 /\ calls = 0
    /\ codec = NoCodec
    /\ disc \in { [NoDisc EXCEPT !.phase = "loop", !.vendor_id = ids[1],
                                 !.product_id = ids[2], !.timeout = t,
                                 !.elapsed = e] :
                    ids \in IdPairs, t \in Timeouts, e \in 0..1 }

DiscUnchanged ==
    UNCHANGED <<pc, caller, skip_handshake, mode_identify, payload, codec, line, ret,
                done, method, clean, idvars, argv, exch, envvars, nsync, probe, calls>>

\* one turn of the while loop: the condition holds, comports() is scanned; a
\* hit is returned, a miss tests the clock again
find_port_turn ==
    /\ disc.phase = "loop"
    /\ disc.timeout.none \/ disc.elapsed < disc.timeout.secs
    /\ \E ports \in Comports, dt \in 0..1 :
        LET found == find_port_scan(ports, disc.vendor_id, disc.product_id)
            saw   == Matching(ports, disc.vendor_id, disc.product_id) # {}
            d     == [disc EXCEPT !.scanned = ports, !.scans = 1,
                                  !.seen = disc.seen \/ saw]
        IN  /\ disc.elapsed + dt <= MaxClock
            /\ disc' = IF found = ""
                       THEN [d EXCEPT !.elapsed = disc.elapsed + dt]
                       ELSE [d EXCEPT !.phase = "returned", !.result = found]
    /\ UNCHANGED <<session, logged, err>>
    /\ DiscUnchanged

\* the condition of the while loop is false: return None
find_port_expired ==
    /\ disc.phase = "loop"
    /\ ~(disc.timeout.none \/ disc.elapsed < disc.timeout.secs)
    /\ disc' = [disc EXCEPT !.phase = "returned", !.result = ""]
    /\ UNCHANGED <<session, logged, err>>
    /\ DiscUnchanged

\* find_device() with what find_port returned: log, raise or open
find_device_rest ==
    /\ disc.phase = "returned"
    /\ LET o == find_device_open(disc.result)
       IN  /\ port' = o.port
           /\ logged' = logged \o o.logged
           /\ err' = o.err
           /\ dev' = o.dev
    /\ disc' = [disc EXCEPT !.phase = "done"]
    /\ DiscUnchanged

DiscNext ==
    \/ find_port_turn
    \/ find_port_expired
    \/ find_device_rest

DiscSpec == DiscInit /\ [][DiscNext]_vars

----------------------------------------------------------------------------
(* The handshake.                                                          *)

IsWrite(e, bs) == e.op = "write" /\ Bytes(e.data) = bs
IsRead(e, bs)  == e.op = "read" /\ Bytes(e.data) = bs

\* the sync probes of the running handshake(); the device answered probe i
\* with 0x5F, or with something else (a wrong byte first, or nothing)
SyncProbes  == { i \in DOMAIN wire : IsWrite(wire[i], <<SYNC_BYTE>>) }
Answered(i) == wire[i].reply # <<>> /\ wire[i].reply[1].b = SYNC_REPLY
Resets      == { i \in DOMAIN wire : wire[i].op = "reset" }

\* C1: handshake() leaves its sync loop with the probe the device answers
\* with 0x5F and with no earlier one: 0xA0 has been written N times when the
\* N-th reply is the first 0x5F; after each of the N-1 probes before it the
\* reply was read and the input buffer reset; and 0x0A is written only after
\* 0x5F has been read.
C1_SyncLoop ==
    method = "handshake" =>
        /\ Cardinality(SyncProbes) = nsync
        /\ pc = "handshake_sync" <=> \A i \in SyncProbes : ~Answered(i)
        /\ \A i \in SyncProbes :
              IF Answered(i)
              THEN /\ \A j \in SyncProbes : j <= i
                   /\ i + 1 <= Len(wire) /\ IsRead(wire[i + 1], <<SYNC_REPLY>>)
              ELSE /\ i + 2 <= Len(wire)
                   /\ wire[i + 1].op = "read" /\ wire[i + 1].n = 1
                   /\ wire[i + 2].op = "reset"
        /\ Cardinality(Resets) = Cardinality({ i \in SyncProbes : ~Answered(i) })
        /\ \A j \in DOMAIN wire :
              IsWrite(wire[j], <<PROBES[1]>>) =>
                  \E i \in 1..(j - 1) : IsRead(wire[i], <<SYNC_REPLY>>)

\* the device answered the third probe, after a 0x00 0x5F and one more miss,
\* and the first checked probe has been written
C1_Witness ==
    /\ method = "handshake"
    /\ Cardinality(SyncProbes) = 3
    /\ \E i \in SyncProbes : Bytes(wire[i].reply) = <<0, SYNC_REPLY>>
    /\ \E j \in DOMAIN wire : IsWrite(wire[j], <<PROBES[1]>>)


\* the events of the running handshake() after its sync loop: the checked
\* probes, a write and a read each
ProbeTrace ==
    LET at == { i \in SyncProbes : Answered(i) }
    IN  IF at = {} THEN <<>>
        ELSE SubSeq(wire, (CHOOSE i \in at : TRUE) + 2, Len(wire))
NProbes == Len(ProbeTrace) \div 2
ProbeWrite(k) == ProbeTrace[2 * k - 1]
ProbeRead(k)  == ProbeTrace[2 * k]
Matched(k)    == Bytes(ProbeWrite(k).reply) = <<ECHOES[k]>>
\* handshake() has returned
Completed ==
    method = "handshake" /\ pc \notin {"handshake_sync", "handshake_probe"} /\ err = NoErr

\* C2: after the sync loop handshake() writes 0x0A, 0x50, 0x05 in this order and
\* nothing else, reads one byte after each, and writes a probe only when the
\* reply to the one before was read and was its echo (0xF5, 0xAF, 0xFA); it
\* returns (logging "Handshake completed!") iff the device answered all three
\* with their echoes.
C2_Probes ==
    method = "handshake" =>
        /\ Len(ProbeTrace) = 2 * NProbes /\ NProbes <= 3
        /\ Len(Written(wire)) = Cardinality(SyncProbes) + NProbes
        /\ \A k \in 1..NProbes :
              /\ IsWrite(ProbeWrite(k), <<PROBES[k]>>)
              /\ ProbeRead(k).op = "read" /\ ProbeRead(k).n = 1
              /\ ProbeRead(k).data = ProbeWrite(k).reply
        /\ \A k \in 2..NProbes : IsRead(ProbeRead(k - 1), <<ECHOES[k - 1]>>)
        /\ Completed <=> (NProbes = 3 /\ \A k \in 1..3 : Matched(k))
        /\ Completed => logged = <<Line("Handshake completed!", <<>>)>>

\* a handshake() that needed two sync probes has returned
C2_Witness ==
    /\ Completed
    /\ Cardinality(SyncProbes) = 2
    /\ NProbes = 3 /\ IsRead(ProbeRead(3), <<250>>)

\* C3: a probe whose reply is not its echo ends handshake() with the error of
\* that probe: nothing is written after it (no sync byte, no probe), and
\* main, which the error leaves, takes no further step, so that it writes an
\* identification opcode only after a handshake() that returned.
C3_ProbeMismatch ==
    /\ method = "handshake" =>
          \A k \in 1..NProbes :
              ~Matched(k) =>
                  /\ k = NProbes
                  /\ err = RuntimeError("Expected", ECHOES[k])
                  /\ ret = None
                  /\ pc = IF caller = "main" THEN "crashed" ELSE "api"
    /\ pc = "crashed" => ~ENABLED Next
    /\ caller = "main" /\ ~skip_handshake /\ method \in {"identify", "send_da", "jump_da"}
          => "handshake" \in done

\* main has stopped at the second probe, which the device left unanswered
C3_Witness ==
    /\ caller = "main" /\ method = "handshake"
    /\ NProbes = 2 /\ ProbeWrite(2).reply = <<>>
    /\ err = RuntimeError("Expected", 175)
    /\ pc = "crashed"

----------------------------------------------------------------------------
(* Skipping the handshake.                                                 *)

\* identify(), called by main, has written its first opcode
MainIdentifies == caller = "main" /\ method = "identify" /\ wire # <<>>

\* C4, as the specification has it: with the handshake skipped the session
\* still synchronises (writes 0xA0 until it reads 0x5F) before it issues an
\* identification command; only the three probes are left out.
C4_SkipStillSyncs ==
    MainIdentifies /\ skip_handshake => "sync" \in done /\ "handshake" \notin done

\* C4, as the code has it: with args.skip_handshake main does not call
\* handshake() at all, so that neither 0xA0 nor a probe is written and
\* nothing is read before identify(), whose GET_HW_CODE is the first byte
\* on the line; without the flag identify() follows a handshake() that
\* synchronised and returned.
C4_SkipSkipsSync ==
    /\ caller = "main" /\ skip_handshake =>
          /\ method # "handshake"
          /\ "sync" \notin done /\ "handshake" \notin done
          /\ \A i \in DOMAIN wire :
                wire[i].op = "write" =>
                    Bytes(wire[i].data) \notin {<<SYNC_BYTE>>, <<10>>, <<80>>, <<5>>}
          /\ MainIdentifies => clean /\ IsWrite(wire[1], <<GET_HW_CODE>>)
    /\ MainIdentifies /\ ~skip_handshake => {"sync", "handshake"} \subseteq done

\* main, told to skip the handshake, has identified the device
C4_Witness ==
    /\ caller = "main" /\ skip_handshake
    /\ method = "identify" /\ pc = "main_78"
    /\ done = {"find_device", "identify"}

----------------------------------------------------------------------------
(* The enveloped commands.                                                 *)

\* the events of the last exchange
Exchange == SubSeq(wire, exch.from + 1, Len(wire))
\* the line spoiled nothing in it
NoFault == ~script.garble /\ script.drop = 0
\* the status the device reported last in it
DevStatus ==
    IF exch.cmd = "send_da" /\ script.status = 0 THEN script.status2 ELSE script.status

StatusChecked == { "get_hw_code", "get_hw_sw_ver", "get_me_id", "get_soc_id",
                   "power_init", "power_deinit", "send_da" }

\* C5: a command other than JUMP_DA, begun with nothing pending on the line
\* and answered in full by a device that reports the status s, returns only
\* if s is 0, and for s # 0 raises the error that carries s and returns
\* no value.
C5_StatusDecides ==
    exch.cmd \in StatusChecked /\ exch.fresh /\ NoFault /\ ~script.empty =>
        /\ exch.out.err = NoErr => DevStatus = 0
        /\ DevStatus # 0 =>
              exch.out.err = RuntimeError("status", DevStatus) /\ exch.out.ret = None

\* the arguments each command writes after its opcode
NArgs == [c \in {"power_init", "send_da", "jump_da"} |->
              CASE c = "power_init" -> 2 [] c = "send_da" -> 3 [] OTHER -> 1]
ArgWrites(ev, c) ==
    { i \in DOMAIN ev :
        /\ ev[i].op = "write"
        /\ Cardinality({ j \in 1..i : ev[j].op = "write" }) \in 2..(NArgs[c] + 1) }

\* C6: after it has written an argument of w bytes, a command reads the w
\* bytes of its echo before anything else, so that the two bytes it reads
\* as status are the status field of the device.
C6_EchoWidth ==
    exch.cmd \in DOMAIN NArgs /\ exch.fresh /\ NoFault =>
        LET ev == Exchange
        IN  /\ \A i \in ArgWrites(ev, exch.cmd) :
                  /\ i + 1 <= Len(ev)
                  /\ ev[i + 1].op = "read"
                  /\ Len(ev[i + 1].data) = ev[i].n
                  /\ \A b \in DOMAIN ev[i + 1].data : ev[i + 1].data[b].k = "echo"
            /\ \A i \in DOMAIN ev :
                  ev[i].op = "read" /\ ev[i].n = 2 =>
                      Kinds(ev[i].data) \in { <<"status", "status">>,
                                              <<"checksum", "checksum">> }

\* C7: what a command returns or raises, and what it writes, is the same
\* whatever the bytes of the echoes are: as with the echoes the device
\* received, so with any other.
C7_EchoIgnored ==
    exch.cmd # "" /\ exch.fresh => exch.out = exch.plain

\* C8: GET_ME_ID and GET_SOC_ID, begun with nothing pending on the line.  When
\* the length the device declares is 0, the command raises its "length is 0"
\* error with the read of the length as its last call on the line: no read for
\* identity bytes (nor for the status) follows.  When the device declares
\* L > 0, sends all it has to and reports status 0, the command reads L bytes
\* next and returns them: the L bytes the device sent after the length.
C8_IdLength ==
    exch.cmd \in {"get_me_id", "get_soc_id"} /\ exch.fresh =>
        LET ev   == Exchange
            me   == exch.cmd = "get_me_id"
            what == IF me THEN "ME ID length is 0" ELSE "SOC ID length is 0"
            id   == IF me THEN chip.me_id ELSE chip.soc_id
        IN  /\ Len(ev) >= 3
            /\ IsWrite(ev[1], <<IF me THEN GET_ME_ID ELSE GET_SOC_ID>>)
            /\ ev[3].op = "read" /\ ev[3].n = 4
            /\ script.empty /\ Kinds(ev[3].data) = <<"length", "length", "length", "length">>
                  => /\ Bytes(ev[3].data) = <<0, 0, 0, 0>>
                     /\ exch.out.err = RuntimeError(what, 0)
                     /\ exch.out.ret = None
                     /\ Len(ev) = 3
            /\ ~script.empty /\ script.drop = 0 /\ script.status = 0
                  => /\ Bytes(ev[3].data) = struct_pack(">", 4, Len(id))
                     /\ Len(ev) = 5
                     /\ ev[4].op = "read" /\ ev[4].n = Len(id)
                     /\ ev[4].data = Tag(id, "id")
                     /\ exch.out.err = NoErr
                     /\ exch.out.ret = BytesVal(id)

\* identify() has the two bytes of the ME ID and stopped at a SoC ID of length 0,
\* whose status is left unread
C8_Witness ==
    /\ method = "identify" /\ clean
    /\ exch.cmd = "get_soc_id" /\ exch.fresh /\ script.empty
    /\ err = RuntimeError("SOC ID length is 0", 0)
    /\ me_id = chip.me_id /\ Len(me_id) = 2
    /\ Kinds(rx) = <<"status", "status">>

----------------------------------------------------------------------------
(* identify().                                                             *)

IdentifyOrder == << <<GET_HW_CODE>>, <<GET_HW_SW_VER>>, <<GET_ME_ID>>, <<GET_SOC_ID>> >>
IdentifyCmds  == << "get_hw_code", "get_hw_sw_ver", "get_me_id", "get_soc_id" >>
InIdentify    == method = "identify" /\ \E k \in 1..4 : pc = IdentifyCmds[k]
IdentifyReturned == method = "identify" /\ ~InIdentify /\ err = NoErr
\* the position in the history of the k-th write
WriteAt(k) ==
    CHOOSE i \in DOMAIN wire :
        wire[i].op = "write" /\ Cardinality({ j \in 1..i : wire[j].op = "write" }) = k

\* C9: what identify() writes is 0xFD, 0xFC, 0xE1, 0xE7 in this order, or the
\* first k of them; the call before each opcode but the first is the read of
\* a status 0x0000, which ended the command before; identify() goes on only
\* while no command has raised, returns only after the fourth, and when the
\* k-th raises, it ends with that error, k opcodes written, nothing logged.
C9_IdentifyOrder ==
    method = "identify" =>
        LET w == Written(wire)
            n == Len(w)
        IN  /\ n <= 4
            /\ \A k \in 1..n : w[k] = IdentifyOrder[k]
            /\ \A k \in 2..n :
                  LET before == wire[WriteAt(k) - 1]
                  IN  IsRead(before, <<0, 0>>) /\ before.n = 2
            /\ InIdentify => err = NoErr /\ pc = IdentifyCmds[n + 1]
            /\ IdentifyReturned => n = 4
            /\ err # NoErr =>
                  /\ n >= 1
                  /\ exch.cmd = IdentifyCmds[n]
                  /\ err = exch.out.err
                  /\ ret = None /\ logged = <<>>
                  /\ pc = IF caller = "main" THEN "crashed" ELSE "api"

\* the third command of identify() raised on a status 0x0100 and main is gone
C9_Witness ==
    /\ caller = "main" /\ method = "identify"
    /\ Written(wire) = << <<253>>, <<252>>, <<225>> >>
    /\ err = RuntimeError("status", 256)
    /\ pc = "crashed"

\* C10, as the specification has it: an identify() that succeeds returns a
\* record of the six values.
C10_ReturnsRecord ==
    IdentifyReturned /\ clean => ret # None

\* C10, as the code has it: an identify() that began with nothing pending on
\* the line and succeeds returns None; what it has of the device is in its
\* six log lines, which show, in hexadecimal, the hw_code, hw_sub_code, hw_ver,
\* sw_ver, ME ID and SoC ID the device sent.
C10_IdentifyLogs ==
    IdentifyReturned /\ clean =>
        /\ ret = None
        /\ hw_code = chip.hw_code /\ hw_sub_code = chip.hw_sub_code
        /\ hw_ver = chip.hw_ver /\ sw_ver = chip.sw_ver
        /\ me_id = chip.me_id /\ soc_id = chip.soc_id
        /\ logged = << Line("HW Code", HexDigits(chip.hw_code, 4)),
                       Line("HW Sub-Code", HexDigits(chip.hw_sub_code, 4)),
                       Line("HW Version", HexDigits(chip.hw_ver, 4)),
                       Line("SW Version", HexDigits(chip.sw_ver, 4)),
                       Line("ME ID", HexOfBytes(chip.me_id)),
                       Line("SOC ID", HexOfBytes(chip.soc_id)) >>

\* main has identified the device that answers GET_HW_CODE with 0x1234
C10_Witness ==
    /\ caller = "main" /\ "identify" \in done /\ method = "identify"
    /\ chip.hw_code = 4660
    /\ logged[1] = Line("HW Code", <<1, 2, 3, 4>>)
    /\ logged[5] = Line("ME ID", <<10, 10, 0, 1>>)
    /\ ret = None
\* the lines of the log that show a value of the device
IdLines ==
    { i \in DOMAIN logged :
        logged[i].msg \in {"HW Code", "HW Sub-Code", "HW Version", "SW Version",
                           "ME ID", "SOC ID"} }

\* C11: identify() logs a value of the device only when its four commands
\* have all returned: while one of them is still to run, and after one of
\* them raised, the log of the pass holds no value, whatever the commands
\* before it obtained; and when it holds one, it holds all six, the four
\* opcodes are written and no error is raised.
C11_AllOrNothing ==
    method = "identify" =>
        /\ InIdentify \/ err # NoErr => IdLines = {}
        /\ IdLines # {} =>
              /\ IdLines = 1..6
              /\ IdentifyReturned
              /\ Written(wire) = IdentifyOrder

\* identify() had the hw_code, the versions and the ME ID of the device when
\* its fourth command raised, and has logged nothing
C11_Witness ==
    /\ method = "identify" /\ clean
    /\ hw_code = chip.hw_code /\ sw_ver = chip.sw_ver /\ me_id = chip.me_id
    /\ exch.cmd = "get_soc_id" /\ err = RuntimeError("status", 1)
    /\ logged = <<>>
----------------------------------------------------------------------------
(* send_da and jump_da.                                                    *)

\* what send_da writes before the payload
DaHeader ==
    << <<SEND_DA>>, struct_pack(">", 4, argv.address),
       struct_pack(">", 4, argv.da_len), struct_pack(">", 4, argv.sig_len) >>

\* C12: send_da writes the opcode 0xD7, then address, da_len and sig_len, 4
\* bytes each, most significant first, reading 1, 4, 4 and 4 bytes after
\* them, and then reads the 2 bytes of the first status.  It writes the
\* payload iff these are 0x0000: in one write, all of it, with a read of 2
\* bytes (the checksum the device sent in reply) as the next call.  On a
\* device that reports a first status other than 0, no payload is written.
C12_PayloadAfterHeader ==
    exch.cmd = "send_da" =>
        LET ev == Exchange
            w  == Written(ev)
        IN  /\ Len(ev) >= 9
            /\ \A k \in 1..4 :
                  /\ IsWrite(ev[2 * k - 1], DaHeader[k])
                  /\ ev[2 * k].op = "read"
                  /\ ev[2 * k].n = (IF k = 1 THEN 1 ELSE 4)
            /\ ev[9].op = "read" /\ ev[9].n = 2
            /\ Len(w) = (IF Bytes(ev[9].data) = <<0, 0>> THEN 5 ELSE 4)
            /\ Len(w) = 4 => Len(ev) = 9 /\ exch.out.err # NoErr
            /\ Len(w) = 5 =>
                  /\ IsWrite(ev[10], argv.da)
                  /\ Len(ev) >= 11
                  /\ ev[11].op = "read" /\ ev[11].n = 2
                  /\ exch.fresh => ev[11].data = SubSeq(ev[10].reply, 1, Len(ev[11].data))
                  /\ exch.fresh /\ script.drop = 0 =>
                        Kinds(ev[11].data) = <<"checksum", "checksum">>
            /\ exch.fresh /\ script.status # 0 => Len(w) = 4

\* main has sent a payload of three bytes in one write after a first status of
\* 0 and has read the checksum next
C12_Witness ==
    /\ caller = "main" /\ exch.cmd = "send_da"
    /\ Len(Exchange) = 12
    /\ IsWrite(Exchange[10], <<218, 122, 1>>)
    /\ Kinds(Exchange[11].data) = <<"checksum", "checksum">>

\* C13: a send_da, begun with nothing pending on the line, to which the
\* device reports 0x0000 in both status fields and the checksum c, returns c,
\* whatever c and the payload are, and raises nothing.
C13_ReturnsChecksum ==
    /\ exch.cmd = "send_da" /\ exch.fresh /\ script.drop = 0
    /\ script.status = 0 /\ script.status2 = 0
    => /\ exch.out.err = NoErr /\ err = NoErr
       /\ exch.out.ret = IntVal(script.cksum)
       /\ ret = IntVal(script.cksum)
       /\ rx = <<>>

\* send_da has returned 0xABCD, which is not the sum of the three payload bytes
C13_Witness ==
    /\ caller = "main" /\ method = "send_da" /\ "send_da" \in done
    /\ argv.da = <<218, 122, 1>>
    /\ script.cksum = 43981 /\ ret = IntVal(43981)

\* C14: a send_da, begun with nothing pending on the line, to which the
\* device reports a first status of 0 and, after the payload and the
\* checksum, a status s other than 0, raises the error that carries s and
\* returns no checksum; main, which does not catch it, ends there.
C14_SecondStatus ==
    /\ exch.cmd = "send_da" /\ exch.fresh /\ script.drop = 0
    /\ script.status = 0 /\ script.status2 # 0
    => /\ exch.out.err = RuntimeError("status", script.status2)
       /\ err = exch.out.err
       /\ exch.out.ret = None /\ ret = None
       /\ Len(Written(Exchange)) = 5
       /\ caller = "main" => pc = "crashed" /\ "send_da" \notin done

\* main is gone after a send_da whose second status was 0x0001
C14_Witness ==
    /\ caller = "main" /\ exch.cmd = "send_da"
    /\ script.status = 0 /\ script.status2 = 1 /\ script.drop = 0
    /\ err = RuntimeError("status", 1)
    /\ pc = "crashed"
\* C15: main goes through discovery, handshake (unless told to skip it),
\* identify, send_da, jump_da in this order and calls each only when the one
\* before has returned: 0xD7 is written only in a send_da that follows an
\* identify() that returned, 0xD5 only in a jump_da that follows a send_da
\* that returned, and in identify-only mode neither is called or written.
C15_MainOrder ==
    caller = "main" =>
        /\ method = "find_device" => done \subseteq {"find_device"} /\ wire = <<>>
        /\ method = "handshake" => "find_device" \in done /\ ~skip_handshake
        /\ method = "identify" =>
              "find_device" \in done /\ (skip_handshake \/ "handshake" \in done)
        /\ method = "send_da" => "identify" \in done /\ ~mode_identify
        /\ method = "jump_da" => "send_da" \in done /\ ~mode_identify
        /\ "send_da" \in done => "identify" \in done
        /\ "identify" \in done => "find_device" \in done
        /\ \A i \in DOMAIN wire :
              /\ IsWrite(wire[i], <<SEND_DA>>) => method = "send_da"
              /\ IsWrite(wire[i], <<JUMP_DA>>) => method = "jump_da"
        /\ mode_identify => done \cap {"send_da", "jump_da"} = {}
        /\ method = "send_da" /\ err # NoErr => pc = "crashed" /\ ~ENABLED MainJumpDa

\* main has run to its end: every step returned, the jump last
C15_Witness ==
    /\ caller = "main" /\ ~skip_handshake /\ ~mode_identify
    /\ done = {"find_device", "sync", "handshake", "identify", "send_da", "jump_da"}
    /\ method = "jump_da" /\ IsWrite(wire[1], <<JUMP_DA>>)
    /\ pc = "exit"
\* C16: jump_da writes the opcode 0xD5 and the 4 bytes of the address, most
\* significant first, ends with a read of 2 bytes, the status as it takes
\* it, and returns None: whatever status the device reports, whatever it
\* echoes and however much of its reply arrives, jump_da raises nothing.
C16_JumpNeverRaises ==
    exch.cmd = "jump_da" =>
        LET ev == Exchange
        IN  /\ Written(ev) = << <<JUMP_DA>>, struct_pack(">", 4, argv.address) >>
            /\ Len(ev) = 5
            /\ ev[5].op = "read" /\ ev[5].n = 2
            /\ exch.out.err = NoErr /\ err = NoErr
            /\ exch.out.ret = None /\ ret = None
            /\ pc = Back("jump_da")

\* main has left by its last line after a jump_da to 0x200000 to which the
\* device reported the status 0x0100
C16_Witness ==
    /\ caller = "main" /\ exch.cmd = "jump_da"
    /\ Written(Exchange) = << <<213>>, <<0, 32, 0, 0>> >>
    /\ script.status = 256 /\ script.drop = 0
    /\ err = NoErr /\ pc = "exit"

----------------------------------------------------------------------------
(* The codec.                                                              *)

\* the bytes of an unsigned value of w bytes
Representable(v, w) ==
    /\ v >= 0
    /\ w = 1 => v <= 255
    /\ w = 2 => v <= 65535
    /\ w = 4 => v <= MaxInt

\* C18: for a width w of 1, 2 or 4 bytes, a value v that w bytes can hold and
\* either byte order, to_bytes(v, w, e) is w bytes, each in 0..255, and
\* from_bytes of them with the same w and e is v.
C18_RoundTrip ==
    /\ codec.phase \in {"encoded", "decoded"}
    /\ codec.size \in {1, 2, 4}
    /\ Representable(codec.value, codec.size)
    => /\ codec.enc.err = NoErr
       /\ Len(codec.enc.val) = codec.size
       /\ \A i \in DOMAIN codec.enc.val : codec.enc.val[i] \in 0..255
       /\ codec.phase = "decoded" =>
             codec.dec.err = NoErr /\ codec.dec.val = codec.value

\* 0x1234 in 2 bytes, least significant first, is 0x34 0x12 and comes back
C18_Witness ==
    /\ codec.phase = "decoded"
    /\ codec.value = 4660 /\ codec.size = 2 /\ codec.endian = "<"
    /\ codec.enc.val = <<52, 18>>
    /\ codec.dec.val = 4660

\* C19: for a width other than 1, 2 and 4, to_bytes and from_bytes raise the
\* 'invalid size' error and give no value, whatever the value, the buffer and
\* the byte order are.
C19_InvalidWidth ==
    codec.size \notin {1, 2, 4} =>
        /\ codec.phase # "decoded"
        /\ codec.phase = "encoded" =>
              codec.enc = [err |-> RuntimeError("invalid size", 0), val |-> <<>>]
        /\ codec.phase = "parsed" =>
              codec.dec = [err |-> RuntimeError("invalid size", 0), val |-> 0]

\* from_bytes of 3 bytes with the width 3 has raised
C19_Witness ==
    /\ codec.phase = "parsed"
    /\ codec.size = 3 /\ codec.buffer = <<1, 2, 3>>
    /\ codec.dec.err = RuntimeError("invalid size", 0)
----------------------------------------------------------------------------
(* Short reads.                                                            *)

\* the reads of the events ev that the timeout ended with fewer bytes than asked
ShortReads(ev) ==
    { i \in DOMAIN ev : ev[i].op = "read" /\ Len(ev[i].data) < ev[i].n }

\* C20: a command one of whose reads came back short raises an error, and
\* main, which issued it, ends with that error instead of going on or
\* leaving as after a success.
C20_ShortReadAborts ==
    exch.cmd # "" /\ ShortReads(Exchange) # {} =>
        /\ exch.out.err # NoErr
        /\ caller = "main" => pc = "crashed"
----------------------------------------------------------------------------
(* Discovery.                                                              *)

FindPortReturned == disc.phase \in {"returned", "done"}

\* C21: find_port returns a port only for an endpoint it enumerated whose
\* vendor id and product id are both the ones asked for; it returns None only
\* when a timeout was given, has elapsed, and no scan saw such an endpoint,
\* so never when no timeout was given; and find_device, given None by
\* find_port, raises 'Device not found' and opens no transport, while a port
\* that was found is the one it opens.
C21_Discovery ==
    /\ FindPortReturned /\ disc.result # "" =>
          \E i \in DOMAIN disc.scanned :
              /\ disc.scanned[i].vid = disc.vendor_id
              /\ disc.scanned[i].pid = disc.product_id
              /\ disc.scanned[i].device = disc.result
    /\ FindPortReturned /\ disc.result = "" =>
          /\ ~disc.timeout.none
          /\ disc.elapsed >= disc.timeout.secs
          /\ ~disc.seen
    /\ disc.phase = "done" /\ disc.result = "" =>
          /\ err = RuntimeError("Device not found", 0)
          /\ ~dev
          /\ port = ""
          /\ wire = <<>>
    /\ disc.phase = "done" /\ disc.result # "" =>
          /\ err = NoErr
          /\ dev
          /\ port = disc.result

\* a timeout of two seconds ran out over scans that found nothing, and
\* find_device raised
C21_Witness ==
    /\ disc.phase = "done"
    /\ disc.timeout = Timeout(2)
    /\ disc.scans = 1
    /\ disc.result = ""
    /\ err = RuntimeError("Device not found", 0)
    /\ ~dev
----------------------------------------------------------------------------
(* Retries.                                                                *)

Syncing == pc = "handshake_sync"
\* what is written once at most by a method: the opcodes and the probes
OnceOnly == { GET_HW_SW_VER, GET_HW_CODE, PWR_INIT, PWR_DEINIT, JUMP_DA, SEND_DA,
              GET_ME_ID, GET_SOC_ID, PROBES[1], PROBES[2], PROBES[3] }
TimesWritten(b) == Cardinality({ i \in DOMAIN wire : IsWrite(wire[i], <<b>>) })

\* C22: as long as no probe of the sync loop has been answered with 0x5F the
\* session is in the loop, has written 0xA0 once per turn and nothing else,
\* and has raised nothing, however many turns it took; a turn leaves the loop
\* only by reading 0x5F, and then for the first checked probe; with a device
\* that answers in the end and a loop that takes its turns the session leaves
\* the loop; and nothing else is retried: once a method has raised it does
\* nothing more, and no opcode or checked probe is written twice by one call.
C22_OnlySyncRetries ==
    /\ [](Syncing =>
            /\ err = NoErr
            /\ \A i \in SyncProbes : ~Answered(i)
            /\ Written(wire) = [k \in 1..nsync |-> <<SYNC_BYTE>>])
    /\ [][Syncing =>
            \/ Syncing' /\ err' = NoErr /\ nsync' = nsync + 1
            \/ /\ pc' = "handshake_probe"
               /\ err' = NoErr
               /\ IsRead(wire'[Len(wire')], <<SYNC_REPLY>>)]_vars
    /\ Syncing ~> (pc = "handshake_probe")
    /\ [](err # NoErr => pc \in {"crashed", "api"})
    /\ [](\A b \in OnceOnly : TimesWritten(b) <= 1)

\* two probes went unanswered and the session is still in the loop
C22_Witness ==
    /\ Syncing
    /\ nsync >= 2
    /\ Cardinality(Resets) >= 2
    /\ err = NoErr
----------------------------------------------------------------------------
(* The line after a failure.                                               *)

\* the failures a device reports: a nonzero status, an identity of length 0
DeviceReported(e) ==
    /\ e.kind = "RuntimeError"
    /\ e.what \in {"status", "ME ID length is 0", "SOC ID length is 0"}

\* C23: when a command that began with nothing pending on the line raises a
\* failure the device reported, and the device sent every byte of its
\* response, status included, then nothing of that response is left unread:
\* the input buffer is empty for the next command.
C23_AlignedAfterFailure ==
    /\ exch.cmd # ""
    /\ exch.fresh
    /\ script.drop = 0
    /\ DeviceReported(exch.out.err)
    => rx = <<>>
====
